---- MODULE Spec2Model ----
(***************************************************************************)
(* Model of imgbb_sdk.client.imgbb_upload (src/src/imgbb_sdk/client.py).   *)
(*                                                                         *)
(* One call of imgbb_upload is a small sequential process: validate key,   *)
(* validate expiration, normalize the image, build the request, send it,   *)
(* interpret the response.  Every variable is a function of the call id so *)
(* that several calls can be put side by side.  The arguments of a call,   *)
(* the file system facts about a path argument and the behaviour of the    *)
(* transport are chosen nondeterministically from finite sets.             *)
(*                                                                         *)
(* Python values are tagged records ([t |-> "str", ...]) so that values of *)
(* different Python types can be compared.  Text that the program only     *)
(* passes around is a TLA+ string; text it inspects character by character *)
(* (the API key) is a sequence of one-character strings.                   *)
(***************************************************************************)
EXTENDS Integers, Sequences, FiniteSets, TLC

VARIABLES
    args,       \* args[c]: the arguments of call c (key, image, name, expiration)
    pc,         \* pc[c]: the stage call c executes next
    visited,    \* visited[c]: the stages call c has executed, in order (history)
    stream,     \* stream[c]: state of the file-like object passed as image
    file_reads, \* file_reads[c]: how often call c opened the file at a path argument
    image_data, \* image_data[c]: local variable image_data
    params,     \* params[c]: local variable params (query parameters)
    data,       \* data[c]: local variable data (form body)
    requests,   \* requests[c]: the HTTP requests call c has handed to requests.post
    response,   \* response[c]: what requests.post did for call c
    outcome     \* outcome[c]: how call c ended (pending, return, raise)

vars == <<args, pc, visited, stream, file_reads, image_data, params, data, requests, response, outcome>>

-----------------------------------------------------------------------------
(* Program constants, client.py lines 21-37 *)

IMGBB_API_URL == "https://api.imgbb.com/1/upload"
UPLOAD_TIMEOUT == 30
MAX_FILE_SIZE == 33554432
MIN_EXPIRATION == 60
MAX_EXPIRATION == 15552000
SUPPORTED_EXTENSIONS ==
    { <<".", "j", "p", "g">>, <<".", "j", "p", "e", "g">>, <<".", "p", "n", "g">>,
      <<".", "g", "i", "f">>, <<".", "b", "m", "p">>, <<".", "w", "e", "b", "p">> }

(* Bounds of the model *)

MaxBytes == 2       \* byte payloads written out in full have at most this many bytes
MaxPos == 1         \* a stream starts at a read position of at most this

-----------------------------------------------------------------------------
(* Python values *)

PyNone == [t |-> "none"]
PyInt(n) == [t |-> "int", n |-> n]
PyBool(b) == [t |-> "bool", b |-> b]
PyFloat(tenths) == [t |-> "float", tenths |-> tenths]
PyStr(chars) == [t |-> "str", s |-> chars]

(* bool(v) for the argument values above *)
Truthy(v) ==
    CASE v.t = "none" -> FALSE
      [] v.t = "int" -> v.n /= 0
      [] v.t = "bool" -> v.b
      [] v.t = "float" -> v.tenths /= 0
      [] v.t = "str" -> v.s /= <<>>
      [] v.t = "text" -> v.s /= ""
      [] OTHER -> TRUE

(* isinstance(v, int): bool is a subclass of int *)
IsInt(v) == v.t \in {"int", "bool"}

(* the integer an int or bool stands for *)
IntValue(v) == IF v.t = "bool" THEN (IF v.b THEN 1 ELSE 0) ELSE v.n

(* v != 0 *)
NotEqualZero(v) ==
    CASE v.t \in {"int", "bool"} -> IntValue(v) /= 0
      [] v.t = "float" -> v.tenths /= 0
      [] OTHER -> TRUE

Digit(d) == CASE d = 0 -> "0" [] d = 1 -> "1" [] d = 2 -> "2" [] d = 3 -> "3"
              [] d = 4 -> "4" [] d = 5 -> "5" [] d = 6 -> "6" [] d = 7 -> "7"
              [] d = 8 -> "8" [] d = 9 -> "9"

RECURSIVE NatToStr(_)
NatToStr(n) == IF n < 10 THEN Digit(n) ELSE NatToStr(n \div 10) \o Digit(n % 10)

(* str(n) for an int *)
IntToStr(n) == IF n < 0 THEN "-" \o NatToStr(-n) ELSE NatToStr(n)

(* str(v) for an int or a bool *)
PyStrOf(v) == IF v.t = "bool" THEN (IF v.b THEN "True" ELSE "False") ELSE IntToStr(v.n)

-----------------------------------------------------------------------------
(* Exceptions.  An error is [cls, msg, status_code, response_text].         *)

Raise(cls, msg) == [cls |-> cls, msg |-> msg, status_code |-> 0, response_text |-> ""]

ImgBBValidationError(msg) == Raise("ImgBBValidationError", msg)
ImgBBTimeoutError(msg) == Raise("ImgBBTimeoutError", msg)
ImgBBAPIError(msg, status_code, response_text) ==
    [cls |-> "ImgBBAPIError", msg |-> msg, status_code |-> status_code,
     response_text |-> response_text]

Ok(v) == [ok |-> TRUE, v |-> v]
Err(e) == [ok |-> FALSE, e |-> e]

-----------------------------------------------------------------------------
(* Input validation, client.py lines 40-56 *)

WhitespaceChars == {" ", "\t", "\n", "\r"}

RECURSIVE LStrip(_)
LStrip(s) == IF s /= <<>> /\ Head(s) \in WhitespaceChars THEN LStrip(Tail(s)) ELSE s

RECURSIVE RStrip(_)
RStrip(s) ==
    IF s /= <<>> /\ s[Len(s)] \in WhitespaceChars
    THEN RStrip(SubSeq(s, 1, Len(s) - 1))
    ELSE s

(* str.strip() *)
Strip(s) == RStrip(LStrip(s))

KeyRequiredMsg == "ImgBB API key is required and must be a non-empty string"
ExpirationTypeMsg == "Expiration must be an integer"
ExpirationRangeMsg ==
    "Expiration must be a number between " \o IntToStr(MIN_EXPIRATION)
        \o " and " \o IntToStr(MAX_EXPIRATION) \o " seconds"

(* line 42 without the strip() test *)
KeyRejectedNoStrip(key) ==
    \/ ~Truthy(key)
    \/ key.t /= "str"

(* the condition of line 42: not key or not isinstance(key, str) or not key.strip() *)
KeyRejected(key) ==
    \/ ~Truthy(key)
    \/ key.t /= "str"
    \/ Strip(key.s) = <<>>

_validate_api_key(key) ==
    IF KeyRejected(key) THEN Err(ImgBBValidationError(KeyRequiredMsg)) ELSE Ok(PyNone)

(* _validate_expiration with "and" for the "or" of line 53 *)
ValidateExpirationAnd(expiration) ==
    IF ~IsInt(expiration)
    THEN Err(ImgBBValidationError(ExpirationTypeMsg))
    ELSE IF IntValue(expiration) < MIN_EXPIRATION /\ IntValue(expiration) > MAX_EXPIRATION
         THEN Err(ImgBBValidationError(ExpirationRangeMsg))
         ELSE Ok(PyNone)

_validate_expiration(expiration) ==
    IF ~IsInt(expiration)
    THEN Err(ImgBBValidationError(ExpirationTypeMsg))
    ELSE IF IntValue(expiration) < MIN_EXPIRATION \/ IntValue(expiration) > MAX_EXPIRATION
         THEN Err(ImgBBValidationError(ExpirationRangeMsg))
         ELSE Ok(PyNone)

(* the condition of lines 194 and 207: expiration and expiration != 0 *)
ExpirationGiven(expiration) == Truthy(expiration) /\ NotEqualZero(expiration)

(* lines 194-195 *)
CheckExpiration(expiration) ==
    IF ExpirationGiven(expiration) THEN _validate_expiration(expiration) ELSE Ok(PyNone)

-----------------------------------------------------------------------------
(* Byte strings and base64.  A byte string is [len, head]: its length and  *)
(* its first bytes, all of them unless the string is too long to write out *)
(* (a file of MAX_FILE_SIZE bytes), in which case head holds whole groups  *)
(* of three bytes.                                                         *)

Bytes(seq) == [t |-> "bytes", len |-> Len(seq), head |-> seq]
Blob(n, seq) == [t |-> "bytes", len |-> n, head |-> seq]
Text(str) == [t |-> "text", s |-> str]

B64Alphabet ==
    << "A","B","C","D","E","F","G","H","I","J","K","L","M","N","O","P",
       "Q","R","S","T","U","V","W","X","Y","Z","a","b","c","d","e","f",
       "g","h","i","j","k","l","m","n","o","p","q","r","s","t","u","v",
       "w","x","y","z","0","1","2","3","4","5","6","7","8","9","+","/" >>

(* B64Char with the URL-safe alphabet of base64.urlsafe_b64encode *)
B64CharUrlSafe(sextet) ==
    IF sextet = 62 THEN "-" ELSE IF sextet = 63 THEN "_" ELSE B64Alphabet[sextet + 1]

B64Char(sextet) == B64Alphabet[sextet + 1]

RECURSIVE B64Groups(_)
B64Groups(b) ==
    CASE Len(b) = 0 -> <<>>
      [] Len(b) = 1 ->
            << B64Char(b[1] \div 4), B64Char((b[1] % 4) * 16), "=", "=" >>
      [] Len(b) = 2 ->
            << B64Char(b[1] \div 4), B64Char((b[1] % 4) * 16 + b[2] \div 16),
               B64Char((b[2] % 16) * 4), "=" >>
      [] OTHER ->
            << B64Char(b[1] \div 4), B64Char((b[1] % 4) * 16 + b[2] \div 16),
               B64Char((b[2] % 16) * 4 + b[3] \div 64), B64Char(b[3] % 64) >>
            \o B64Groups(SubSeq(b, 4, Len(b)))

(* base64.b64encode(image_bytes).decode("utf-8"): a str of ASCII characters *)
b64encode(bytes) ==
    [t |-> "b64", len |-> 4 * ((bytes.len + 2) \div 3), head |-> B64Groups(bytes.head)]

-----------------------------------------------------------------------------
(* Image normalization, client.py lines 59-139 *)

RECURSIVE Join(_)
Join(chars) == IF chars = <<>> THEN "" ELSE Head(chars) \o Join(Tail(chars))

LowerChar(ch) ==
    CASE ch = "P" -> "p" [] ch = "N" -> "n" [] ch = "G" -> "g"
      [] ch = "J" -> "j" [] ch = "T" -> "t" [] ch = "X" -> "x"
      [] OTHER -> ch

(* str.lower() on a sequence of characters *)
Lower(chars) == [i \in 1..Len(chars) |-> LowerChar(chars[i])]

(* _is_url with any([scheme, netloc]) in place of all([scheme, netloc]) *)
IsUrlAny(image) ==
    IF image.url.raises THEN FALSE
    ELSE image.url.scheme /= "" \/ image.url.netloc /= ""

(* urlparse(path) as the library computes it for the strings of the model: *)
(* image.url is [raises, scheme, netloc]                                   *)
_is_url(image) ==
    IF image.url.raises THEN FALSE
    ELSE image.url.scheme /= "" /\ image.url.netloc /= ""

(* _get_file_extension without lower() *)
GetFileExtensionCaseSensitive(filename) == filename.suffix

(* Path(filename).suffix.lower(); filename is [text, suffix] *)
_get_file_extension(filename) == Lower(filename.suffix)

InvalidTypeMsg(ext) ==
    "Invalid image type. Supported formats: JPEG, PNG, GIF, BMP, WEBP. Got: " \o Join(ext)

NoFilename == [text |-> "", suffix |-> <<>>]

_validate_image_type(filename) ==
    IF filename.text /= ""
    THEN LET ext == _get_file_extension(filename)
         IN IF ext /= <<>> /\ ext \notin SUPPORTED_EXTENSIONS
            THEN Err(ImgBBValidationError(InvalidTypeMsg(ext)))
            ELSE Ok(PyNone)
    ELSE Ok(PyNone)

FileSizeMsg(file_size) ==
    "File size (" \o IntToStr(file_size) \o " bytes) exceeds maximum allowed size ("
        \o IntToStr(MAX_FILE_SIZE) \o " bytes)"

(* _read_image_file with the extension check (lines 97-99) moved before    *)
(* the size check (lines 91-95)                                            *)
ReadImageFileTypeFirst(image) ==
    LET f == image.file
        filename == [text |-> image.text, suffix |-> image.suffix]
    IN  IF ~f.exists
        THEN [res |-> Err(ImgBBValidationError("File not found: " \o image.text)),
              opens |-> 0]
        ELSE IF ~f.is_file
        THEN [res |-> Err(ImgBBValidationError("Path is not a file: " \o image.text)),
              opens |-> 0]
        ELSE IF ~_validate_image_type(filename).ok
        THEN [res |-> _validate_image_type(filename), opens |-> 0]
        ELSE IF f.size > MAX_FILE_SIZE
        THEN [res |-> Err(ImgBBValidationError(FileSizeMsg(f.size))), opens |-> 0]
        ELSE IF f.open_raises
        THEN [res |-> Err(Raise("PermissionError",
                                "[Errno 13] Permission denied: " \o image.text)),
              opens |-> 1]
        ELSE [res |-> Ok(f.content), opens |-> 1]

(* image.file is what the file system holds at the path:                   *)
(* [exists, is_file, size, content, open_raises].  The result is          *)
(* [res, opens]: the bytes returned or the exception raised, and how often *)
(* the file was opened (line 102)                                          *)
_read_image_file(image) ==
    LET f == image.file
        filename == [text |-> image.text, suffix |-> image.suffix]
    IN  IF ~f.exists
        THEN [res |-> Err(ImgBBValidationError("File not found: " \o image.text)),
              opens |-> 0]
        ELSE IF ~f.is_file
        THEN [res |-> Err(ImgBBValidationError("Path is not a file: " \o image.text)),
              opens |-> 0]
        ELSE IF f.size > MAX_FILE_SIZE
        THEN [res |-> Err(ImgBBValidationError(FileSizeMsg(f.size))), opens |-> 0]
        ELSE IF ~_validate_image_type(filename).ok
        THEN [res |-> _validate_image_type(filename), opens |-> 0]
        ELSE IF f.open_raises
        THEN [res |-> Err(Raise("PermissionError",
                                "[Errno 13] Permission denied: " \o image.text)),
              opens |-> 1]
        ELSE [res |-> Ok(f.content), opens |-> 1]

InvalidImageMsg == "Image must be a file path (str), URL (str), bytes, or file-like object"

(* lines 135-139 without the call of _validate_image_type (line 136) *)
EncodeImageUnchecked(image_bytes, filename) ==
    IF image_bytes.t /= "bytes"
    THEN Err(Raise("TypeError", "a bytes-like object is required, not 'str'"))
    ELSE Ok(b64encode(image_bytes))

(* lines 135-139: validate the type, then encode *)
EncodeImage(image_bytes, filename) ==
    IF ~_validate_image_type(filename).ok
    THEN _validate_image_type(filename)
    ELSE IF image_bytes.t /= "bytes"
    THEN Err(Raise("TypeError", "a bytes-like object is required, not 'str'"))
    ELSE Ok(b64encode(image_bytes))

(* what image.read() returns from read position pos *)
StreamRead(image, pos) ==
    IF image.read = "text" THEN Text("not bytes")
    ELSE Bytes(SubSeq(image.content, pos + 1, Len(image.content)))

(* _prepare_image_data(image) with the file-like object in state st:       *)
(* [res, stream, opens], res the value returned or the exception raised,   *)
(* stream the state the file-like object is left in, opens how often the   *)
(* file at a path argument was opened                                      *)
_prepare_image_data(image, st) ==
    CASE image.t = "str" ->
            IF _is_url(image)
            THEN [res |-> Ok(Text(image.text)), stream |-> st, opens |-> 0]
            ELSE LET r == _read_image_file(image)
                 IN [res |-> IF r.res.ok
                             THEN EncodeImage(r.res.v,
                                      [text |-> image.text, suffix |-> image.suffix])
                             ELSE r.res,
                     stream |-> st,
                     opens |-> r.opens]
      [] image.t = "bytes" ->
            [res |-> EncodeImage(image, NoFilename), stream |-> st, opens |-> 0]
      [] image.t = "stream" ->
            LET filename == IF image.has_name THEN image.name ELSE NoFilename
                afterRead == [st EXCEPT !.pos = Len(image.content), !.reads = @ + 1]
                afterSeek == [afterRead EXCEPT !.pos = 0, !.seeks = @ + 1]
            IN  IF image.read = "raises"
                THEN [res |-> Err(Raise("ValueError", "I/O operation on closed file.")),
                      stream |-> [st EXCEPT !.reads = @ + 1], opens |-> 0]
                ELSE IF image.seek = "raises"
                THEN [res |-> Err(Raise("UnsupportedOperation", "underlying stream is not seekable")),
                      stream |-> afterRead, opens |-> 0]
                ELSE [res |-> EncodeImage(StreamRead(image, st.pos), filename),
                      stream |-> IF image.seek = "ok" THEN afterSeek ELSE afterRead,
                      opens |-> 0]
      [] OTHER ->
            [res |-> Err(ImgBBValidationError(InvalidImageMsg)), stream |-> st, opens |-> 0]

(* lines 198-203 without the except Exception clause *)
PrepareImageUnwrapped(image, st) == _prepare_image_data(image, st)

(* PrepareImage with the wrapper of line 203 keeping only the message of   *)
(* the exception it caught                                                 *)
PrepareImageBareMessage(image, st) ==
    LET p == _prepare_image_data(image, st)
    IN  IF p.res.ok \/ p.res.e.cls = "ImgBBValidationError"
        THEN p
        ELSE [p EXCEPT !.res = Err(ImgBBValidationError(p.res.e.msg))]

(* lines 198-203: ImgBBValidationError passes, anything else is wrapped *)
PrepareImage(image, st) ==
    LET p == _prepare_image_data(image, st)
    IN  IF p.res.ok \/ p.res.e.cls = "ImgBBValidationError"
        THEN p
        ELSE [p EXCEPT !.res =
                Err(ImgBBValidationError("Failed to prepare image data: " \o p.res.e.msg))]

-----------------------------------------------------------------------------
(* Request construction, client.py lines 205-212 *)

(* BuildParams without the test of line 207 *)
BuildParamsAlways(key, expiration) ==
    IF IsInt(expiration)
    THEN [key |-> key, expiration |-> PyStrOf(expiration)]
    ELSE [key |-> key]

BuildParams(key, expiration) ==
    IF ExpirationGiven(expiration)
    THEN [key |-> key, expiration |-> PyStrOf(expiration)]
    ELSE [key |-> key]

(* BuildData without the test of line 211 *)
BuildDataAlways(img, name) == [image |-> img, name |-> name]

BuildData(img, name) ==
    IF Truthy(name) THEN [image |-> img, name |-> name] ELSE [image |-> img]

-----------------------------------------------------------------------------
(* JSON values as response.json() returns them *)

JNull == [t |-> "null"]
JBool(b) == [t |-> "bool", b |-> b]
JNum(n) == [t |-> "num", n |-> n]
JStr(s) == [t |-> "str", s |-> s]
JArr(a) == [t |-> "arr", a |-> a]
JObj(f) == [t |-> "obj", f |-> f]

(* bool(v) for a JSON value *)
JTruthy(v) ==
    CASE v.t = "null" -> FALSE
      [] v.t = "bool" -> v.b
      [] v.t = "num" -> v.n /= 0
      [] v.t = "str" -> v.s /= ""
      [] v.t = "arr" -> v.a /= <<>>
      [] v.t = "obj" -> DOMAIN v.f /= {}

(* type(v).__name__ *)
PyTypeName(v) ==
    CASE v.t = "null" -> "NoneType"
      [] v.t = "bool" -> "bool"
      [] v.t = "num" -> "int"
      [] v.t = "str" -> "str"
      [] v.t = "arr" -> "list"
      [] v.t = "obj" -> "dict"

(* f"{v}" for the values an error message takes in the model *)
Format(v) ==
    CASE v.t = "str" -> v.s
      [] v.t = "num" -> IntToStr(v.n)
      [] v.t = "null" -> "None"
      [] v.t = "bool" -> IF v.b THEN "True" ELSE "False"
      [] v.t = "arr" -> "[]"
      [] v.t = "obj" -> "{}"

(* d.get(key, default) on a dict *)
DictGet(d, key, default) == IF key \in DOMAIN d.f THEN d.f[key] ELSE default

NoGetAttr(v) ==
    Raise("AttributeError", "'" \o PyTypeName(v) \o "' object has no attribute 'get'")

(* v.get(key, default) on any JSON value: only a dict has get *)
PyGet(v, key, default) ==
    IF v.t = "obj" THEN Ok(DictGet(v, key, default)) ELSE Err(NoGetAttr(v))

(* JSON strings of the model that contain the substring "error" *)
StringsContainingError == {"error", "internal error"}

(* "error" in v *)
ContainsError(v) ==
    CASE v.t = "obj" -> Ok("error" \in DOMAIN v.f)
      [] v.t = "arr" -> Ok(\E i \in 1..Len(v.a) : v.a[i] = JStr("error"))
      [] v.t = "str" -> Ok(v.s \in StringsContainingError)
      [] OTHER -> Err(Raise("TypeError", "argument of type '" \o PyTypeName(v)
                                            \o "' is not iterable"))

(* v['error'] *)
ItemError(v) ==
    IF v.t = "obj" THEN Ok(v.f["error"])
    ELSE Err(Raise("TypeError", "indices must be integers"))

-----------------------------------------------------------------------------
(* Response interpretation, client.py lines 223-261 *)

(* Exception classes with their base classes (requests.exceptions, builtins *)
(* and exceptions.py)                                                       *)
Bases(cls) ==
    CASE cls = "ReadTimeout" -> {"ReadTimeout", "Timeout", "RequestException", "Exception"}
      [] cls = "ConnectTimeout" ->
            {"ConnectTimeout", "ConnectionError", "Timeout", "RequestException", "Exception"}
      [] cls = "ConnectionError" -> {"ConnectionError", "RequestException", "Exception"}
      [] cls = "SSLError" -> {"SSLError", "ConnectionError", "RequestException", "Exception"}
      [] cls = "JSONDecodeError" ->
            {"JSONDecodeError", "InvalidJSONError", "RequestException", "ValueError", "Exception"}
      [] cls = "ImgBBValidationError" -> {"ImgBBValidationError", "ImgBBError", "Exception"}
      [] cls = "ImgBBAPIError" -> {"ImgBBAPIError", "ImgBBError", "Exception"}
      [] cls = "ImgBBTimeoutError" -> {"ImgBBTimeoutError", "ImgBBError", "Exception"}
      [] OTHER -> {cls, "Exception"}

IsInstance(e, cls) == cls \in Bases(e.cls)

HttpErrorPrefix(status_code) == "ImgBB API error: HTTP " \o IntToStr(status_code)

(* lines 226-231 with the raw body appended whatever the body holds *)
HttpErrorDetailRaw(resp) == ": " \o resp.text

(* lines 226-231: what is appended to the message of a non-200 response *)
HttpErrorDetail(resp) ==
    LET rawBody == ": " \o resp.text
    IN  IF ~resp.json.ok THEN rawBody
        ELSE LET error_data == resp.json.v
                 has == ContainsError(error_data)
             IN  IF ~has.ok THEN rawBody
                 ELSE IF ~has.v THEN ""
                 ELSE IF ~ItemError(error_data).ok THEN rawBody
                 ELSE LET m == PyGet(ItemError(error_data).v, "message", JStr("Unknown error"))
                      IN IF m.ok THEN ": " \o Format(m.v) ELSE rawBody

(* lines 224-250 returning the data member of the body instead of the body *)
HandleResponseUnwrapped(resp) ==
    IF resp.status_code /= 200
    THEN Err(ImgBBAPIError(HttpErrorPrefix(resp.status_code) \o HttpErrorDetail(resp),
                           resp.status_code, resp.text))
    ELSE IF ~resp.json.ok THEN Err(resp.json.e)
    ELSE LET result == resp.json.v
             success == PyGet(result, "success", JNull)
         IN  IF ~success.ok THEN Err(success.e)
             ELSE IF ~JTruthy(success.v)
             THEN Err(ImgBBAPIError("Upload failed", resp.status_code, resp.text))
             ELSE Ok(DictGet(result, "data", JObj(<<>>)))

(* lines 224-250: the body of the try block once requests.post returned *)
HandleResponse(resp) ==
    IF resp.status_code /= 200
    THEN Err(ImgBBAPIError(HttpErrorPrefix(resp.status_code) \o HttpErrorDetail(resp),
                           resp.status_code, resp.text))
    ELSE IF ~resp.json.ok THEN Err(resp.json.e)
    ELSE LET result == resp.json.v
             success == PyGet(result, "success", JNull)
         IN  IF ~success.ok THEN Err(success.e)
             ELSE IF ~JTruthy(success.v)
             THEN LET error == DictGet(result, "error", JObj(<<>>))
                      m == PyGet(error, "message", JStr("Unknown error"))
                  IN  IF ~m.ok THEN Err(m.e)
                      ELSE Err(ImgBBAPIError("Upload failed: " \o Format(m.v),
                                             resp.status_code, resp.text))
             ELSE Ok(result)

TimeoutMsg == "Upload timed out after " \o IntToStr(UPLOAD_TIMEOUT) \o " seconds"

(* lines 252-261 with the RequestException clause ahead of the Timeout clause *)
HandleExceptionNetworkFirst(e) ==
    IF IsInstance(e, "RequestException")
    THEN ImgBBAPIError("Network error: " \o e.msg, 0, "")
    ELSE IF IsInstance(e, "Timeout") THEN ImgBBTimeoutError(TimeoutMsg)
    ELSE IF IsInstance(e, "ImgBBAPIError") THEN e
    ELSE IF IsInstance(e, "ImgBBTimeoutError") THEN e
    ELSE ImgBBAPIError("Unexpected error during upload: " \o e.msg, 0, "")

(* lines 252-261: the except clauses, tried in order *)
HandleException(e) ==
    IF IsInstance(e, "Timeout") THEN ImgBBTimeoutError(TimeoutMsg)
    ELSE IF IsInstance(e, "RequestException")
    THEN ImgBBAPIError("Network error: " \o e.msg, 0, "")
    ELSE IF IsInstance(e, "ImgBBAPIError") THEN e
    ELSE IF IsInstance(e, "ImgBBTimeoutError") THEN e
    ELSE ImgBBAPIError("Unexpected error during upload: " \o e.msg, 0, "")

(* lines 215-261: the outcome of the call given what requests.post did *)
InterpretTransport(t) ==
    LET r == IF t.raised THEN Err(t.exc) ELSE HandleResponse(t)
    IN  IF r.ok THEN [kind |-> "return", value |-> r.v]
        ELSE [kind |-> "raise", e |-> HandleException(r.e)]

-----------------------------------------------------------------------------
(* The arguments a call is made with *)

Calls == {1}

Keys ==
    { PyNone, PyInt(0), PyInt(7),
      PyStr(<<>>), PyStr(<<" ">>), PyStr(<<" ", "\t">>),
      PyStr(<<"k">>), PyStr(<<" ", "k", " ">>) }

Expirations ==
    { PyInt(n) : n \in {-5, 0, 1, MIN_EXPIRATION - 1, MIN_EXPIRATION, 3600,
                        MAX_EXPIRATION, MAX_EXPIRATION + 1} }
    \cup { PyNone, PyStr(<<"6", "0", "0">>), PyStr(<<>>), PyFloat(0), PyFloat(6005),
           PyBool(TRUE), PyBool(FALSE) }

Names == { Text(""), Text("my-image") }

ByteVals == {77, 255}

RECURSIVE SeqsUpTo(_, _)
SeqsUpTo(S, n) ==
    IF n = 0 THEN {<<>>}
    ELSE LET shorter == SeqsUpTo(S, n - 1)
         IN shorter \cup { Append(q, x) : q \in shorter, x \in S }

BytesImages == { Bytes(q) : q \in SeqsUpTo(ByteVals, MaxBytes) }

NoUrl == [raises |-> FALSE, scheme |-> "", netloc |-> ""]

UrlStrings ==
    { [text |-> "https://example.com/image.jpg", suffix |-> <<".", "j", "p", "g">>,
       url |-> [raises |-> FALSE, scheme |-> "https", netloc |-> "example.com"]],
      [text |-> "https://example.com/notes.txt", suffix |-> <<".", "t", "x", "t">>,
       url |-> [raises |-> FALSE, scheme |-> "https", netloc |-> "example.com"]] }

PathStrings ==
    { [text |-> "/tmp/image.png", suffix |-> <<".", "p", "n", "g">>, url |-> NoUrl],
      [text |-> "/tmp/IMAGE.PNG", suffix |-> <<".", "P", "N", "G">>, url |-> NoUrl],
      [text |-> "/tmp/a.jpg", suffix |-> <<".", "j", "p", "g">>, url |-> NoUrl],
      [text |-> "/tmp/a.bmp", suffix |-> <<".", "b", "m", "p">>, url |-> NoUrl],
      [text |-> "/tmp/a.webp", suffix |-> <<".", "w", "e", "b", "p">>, url |-> NoUrl],
      [text |-> "/tmp/notes.txt", suffix |-> <<".", "t", "x", "t">>, url |-> NoUrl],
      [text |-> "/tmp/photo", suffix |-> <<>>, url |-> NoUrl],
      [text |-> "C:/pics/a.jpeg", suffix |-> <<".", "j", "p", "e", "g">>,
       url |-> [raises |-> FALSE, scheme |-> "c", netloc |-> ""]],
      [text |-> "//cdn.example.com/a.gif", suffix |-> <<".", "g", "i", "f">>,
       url |-> [raises |-> FALSE, scheme |-> "", netloc |-> "cdn.example.com"]],
      [text |-> "http://[bad", suffix |-> <<>>,
       url |-> [raises |-> TRUE, scheme |-> "", netloc |-> ""]] }

File(exists, is_file, content, open_raises) ==
    [exists |-> exists, is_file |-> is_file, size |-> content.len, content |-> content,
     open_raises |-> open_raises]

NoFile == File(FALSE, FALSE, Bytes(<<>>), FALSE)

Files ==
    { NoFile,
      File(TRUE, FALSE, Bytes(<<>>), FALSE),
      File(TRUE, TRUE, Bytes(<<>>), FALSE),
      File(TRUE, TRUE, Bytes(<<137, 80>>), FALSE),
      File(TRUE, TRUE, Bytes(<<137, 80>>), TRUE),
      File(TRUE, TRUE, Blob(MAX_FILE_SIZE, <<120, 120, 120>>), FALSE),
      File(TRUE, TRUE, Blob(MAX_FILE_SIZE + 1, <<120, 120, 120>>), FALSE) }

StrImages ==
    { [t |-> "str", text |-> u.text, suffix |-> u.suffix, url |-> u.url, file |-> f]
        : u \in UrlStrings, f \in {NoFile, File(TRUE, TRUE, Bytes(<<137, 80>>), FALSE)} }
    \cup
    { [t |-> "str", text |-> q.text, suffix |-> q.suffix, url |-> q.url, file |-> f]
        : q \in PathStrings, f \in Files }

StreamContent == <<137, 80, 78>>

StreamNames ==
    { [text |-> "photo.png", suffix |-> <<".", "p", "n", "g">>],
      [text |-> "SCAN.JPG", suffix |-> <<".", "J", "P", "G">>],
      [text |-> "upload", suffix |-> <<>>],
      [text |-> "notes.txt", suffix |-> <<".", "t", "x", "t">>] }

StreamImages ==
    { [t |-> "stream", has_name |-> FALSE, name |-> NoFilename, read |-> r, seek |-> k,
       pos |-> q, content |-> StreamContent]
        : r \in {"bytes", "text", "raises"}, k \in {"none", "ok", "raises"}, q \in 0..MaxPos }
    \cup
    { [t |-> "stream", has_name |-> TRUE, name |-> n, read |-> r, seek |-> k,
       pos |-> q, content |-> StreamContent]
        : n \in StreamNames, r \in {"bytes", "text", "raises"},
          k \in {"none", "ok", "raises"}, q \in 0..MaxPos }

OtherImages == { PyNone, PyInt(42) }

Images == StrImages \cup BytesImages \cup StreamImages \cup OtherImages

Arguments == [key : Keys, image : Images, name : Names, expiration : Expirations]

-----------------------------------------------------------------------------
(* What requests.post can do: raise, or return a response *)

Variant(u) ==
    JObj([filename |-> JStr("test-image.png"), name |-> JStr("test-image"),
          mime |-> JStr("image/png"), extension |-> JStr("png"), url |-> JStr(u)])

SampleData ==
    JObj([id |-> JStr("2ndCYJK"), title |-> JStr("test-image"),
          url_viewer |-> JStr("https://ibb.co/2ndCYJK"),
          url |-> JStr("https://i.ibb.co/w04Prt6/test-image.png"),
          display_url |-> JStr("https://i.ibb.co/98W13PY/test-image.png"),
          width |-> JStr("1920"), height |-> JStr("1080"), size |-> JStr("42000"),
          time |-> JStr("1552042565"), expiration |-> JStr("0"),
          image |-> Variant("https://i.ibb.co/w04Prt6/test-image.png"),
          thumb |-> Variant("https://i.ibb.co/2ndCYJK/test-image.png"),
          medium |-> Variant("https://i.ibb.co/98W13PY/test-image.png"),
          delete_url |-> JStr("https://ibb.co/2ndCYJK/670a7e48ddcb85ac340c717a41047e5c")])

Body(text, json) == [text |-> text, json |-> json]

InvalidJson(cls) == Err(Raise(cls, "Expecting value: line 1 column 1 (char 0)"))

(* response bodies: the raw text and what response.json() makes of it; a   *)
(* body that is not JSON makes json() raise requests' JSONDecodeError or,  *)
(* with an older requests, a plain ValueError                              *)
Bodies ==
    { Body("{\"data\":{...},\"success\":true,\"status\":200}",
           Ok(JObj([data |-> SampleData, success |-> JBool(TRUE), status |-> JNum(200)]))),
      Body("{\"success\":true}", Ok(JObj([success |-> JBool(TRUE)]))),
      Body("{\"data\":{...},\"success\":1}",
           Ok(JObj([data |-> SampleData, success |-> JNum(1)]))),
      Body("{\"success\":\"false\"}", Ok(JObj([success |-> JStr("false")]))),
      Body("{\"success\":0}", Ok(JObj([success |-> JNum(0)]))),
      Body("{\"success\":false,\"error\":{\"message\":\"Upload failed\"}}",
           Ok(JObj([success |-> JBool(FALSE),
                    error |-> JObj([message |-> JStr("Upload failed")])]))),
      Body("{\"error\":{\"message\":\"Invalid API key\",\"code\":100}}",
           Ok(JObj([error |-> JObj([message |-> JStr("Invalid API key"),
                                    code |-> JNum(100)])]))),
      Body("{\"success\":false,\"error\":{\"code\":100}}",
           Ok(JObj([success |-> JBool(FALSE), error |-> JObj([code |-> JNum(100)])]))),
      Body("{\"success\":false,\"error\":{\"message\":404}}",
           Ok(JObj([success |-> JBool(FALSE), error |-> JObj([message |-> JNum(404)])]))),
      Body("{\"success\":false}", Ok(JObj([success |-> JBool(FALSE)]))),
      Body("{\"success\":false,\"error\":\"Bad request\"}",
           Ok(JObj([success |-> JBool(FALSE), error |-> JStr("Bad request")]))),
      Body("{\"success\":false,\"error\":null}",
           Ok(JObj([success |-> JBool(FALSE), error |-> JNull]))),
      Body("{\"status\":500}", Ok(JObj([status |-> JNum(500)]))),
      Body("{}", Ok(JObj(<<>>))),
      Body("[]", Ok(JArr(<<>>))),
      Body("[\"error\"]", Ok(JArr(<<JStr("error")>>))),
      Body("\"internal error\"", Ok(JStr("internal error"))),
      Body("\"ok\"", Ok(JStr("ok"))),
      Body("5", Ok(JNum(5))),
      Body("null", Ok(JNull)),
      Body("<html>502 Bad Gateway</html>", InvalidJson("JSONDecodeError")),
      Body("<html>Bad Gateway</html>", InvalidJson("ValueError")),
      Body("", InvalidJson("JSONDecodeError")) }

Statuses == {200, 201, 403}

Responses ==
    { [raised |-> FALSE, status_code |-> st, text |-> b.text, json |-> b.json]
        : st \in Statuses, b \in Bodies }

TransportFailures ==
    { [raised |-> TRUE, exc |-> Raise("ReadTimeout", "Read timed out. (read timeout=30)")],
      [raised |-> TRUE, exc |-> Raise("ConnectTimeout", "Connection to api.imgbb.com timed out")],
      [raised |-> TRUE, exc |-> Raise("ConnectionError", "Connection refused")],
      [raised |-> TRUE, exc |-> Raise("SSLError", "certificate verify failed")],
      [raised |-> TRUE, exc |-> Raise("RuntimeError", "unexpected failure")] }

Transports == Responses \cup TransportFailures

NoResponse == [raised |-> FALSE, status_code |-> 0, text |-> "", json |-> Ok(JNull)]

-----------------------------------------------------------------------------
(* The call as a state machine *)

StageOrder ==
    << "validate_key", "validate_expiration", "normalize", "build", "send", "interpret" >>

Pending == [kind |-> "pending"]
Raised(e) == [kind |-> "raise", e |-> e]

InitialStream(image) ==
    [pos |-> IF image.t = "stream" THEN image.pos ELSE 0, reads |-> 0, seeks |-> 0]

Init ==
    /\ args \in [Calls -> Arguments]
    /\ pc = [c \in Calls |-> "validate_key"]
    /\ visited = [c \in Calls |-> <<>>]
    /\ stream = [c \in Calls |-> InitialStream(args[c].image)]
    /\ file_reads = [c \in Calls |-> 0]
    /\ image_data = [c \in Calls |-> Text("")]
    /\ params = [c \in Calls |-> <<>>]
    /\ data = [c \in Calls |-> <<>>]
    /\ requests = [c \in Calls |-> <<>>]
    /\ response = [c \in Calls |-> NoResponse]
    /\ outcome = [c \in Calls |-> Pending]

(* a stage of call c ends: control goes to stage next, or the call raises *)
Continue(c, stage, next) ==
    /\ pc' = [pc EXCEPT ![c] = next]
    /\ visited' = [visited EXCEPT ![c] = Append(@, stage)]
    /\ outcome' = outcome

Finish(c, stage, result) ==
    /\ pc' = [pc EXCEPT ![c] = "done"]
    /\ visited' = [visited EXCEPT ![c] = Append(@, stage)]
    /\ outcome' = [outcome EXCEPT ![c] = result]

(* ValidateKey with the expiration check skipped: control goes straight to *)
(* normalization                                                           *)
ValidateKeySkipExpiration(c) ==
    /\ pc[c] = "validate_key"
    /\ LET r == _validate_api_key(args[c].key)
       IN IF r.ok THEN Continue(c, "validate_key", "normalize")
          ELSE Finish(c, "validate_key", Raised(r.e))
    /\ UNCHANGED <<args, stream, file_reads, image_data, params, data, requests, response>>

(* line 192 *)
ValidateKey(c) ==
    /\ pc[c] = "validate_key"
    /\ LET r == _validate_api_key(args[c].key)
       IN IF r.ok THEN Continue(c, "validate_key", "validate_expiration")
          ELSE Finish(c, "validate_key", Raised(r.e))
    /\ UNCHANGED <<args, stream, file_reads, image_data, params, data, requests, response>>

(* lines 194-195 *)
ValidateExpiration(c) ==
    /\ pc[c] = "validate_expiration"
    /\ LET r == CheckExpiration(args[c].expiration)
       IN IF r.ok THEN Continue(c, "validate_expiration", "normalize")
          ELSE Finish(c, "validate_expiration", Raised(r.e))
    /\ UNCHANGED <<args, stream, file_reads, image_data, params, data, requests, response>>

(* lines 197-203 *)
Normalize(c) ==
    /\ pc[c] = "normalize"
    /\ LET p == PrepareImage(args[c].image, stream[c])
       IN /\ stream' = [stream EXCEPT ![c] = p.stream]
          /\ file_reads' = [file_reads EXCEPT ![c] = @ + p.opens]
          /\ IF p.res.ok
             THEN /\ image_data' = [image_data EXCEPT ![c] = p.res.v]
                  /\ Continue(c, "normalize", "build")
             ELSE /\ image_data' = image_data
                  /\ Finish(c, "normalize", Raised(p.res.e))
    /\ UNCHANGED <<args, params, data, requests, response>>

(* BuildRequest with params and data kept in one place for all calls, as   *)
(* module-level dictionaries would be: the call writes everybody's         *)
BuildRequestShared(c) ==
    /\ pc[c] = "build"
    /\ params' = [d \in DOMAIN params |-> BuildParams(args[c].key, args[c].expiration)]
    /\ data' = [d \in DOMAIN data |-> BuildData(image_data[c], args[c].name)]
    /\ Continue(c, "build", "send")
    /\ UNCHANGED <<args, stream, file_reads, image_data, requests, response>>

(* lines 205-212 *)
BuildRequest(c) ==
    /\ pc[c] = "build"
    /\ params' = [params EXCEPT ![c] = BuildParams(args[c].key, args[c].expiration)]
    /\ data' = [data EXCEPT ![c] = BuildData(image_data[c], args[c].name)]
    /\ Continue(c, "build", "send")
    /\ UNCHANGED <<args, stream, file_reads, image_data, requests, response>>

(* Send with a retry: a transport failure sends the request again, up to   *)
(* three attempts                                                          *)
SendWithRetry(c) ==
    /\ pc[c] = "send"
    /\ \E t \in Transports :
          /\ requests' = [requests EXCEPT ![c] =
                Append(@, [url |-> IMGBB_API_URL, params |-> params[c],
                           data |-> data[c], timeout |-> UPLOAD_TIMEOUT])]
          /\ response' = [response EXCEPT ![c] = t]
          /\ IF t.raised /\ Len(requests[c]) < 2
             THEN UNCHANGED <<pc, visited, outcome>>
             ELSE Continue(c, "send", "interpret")
    /\ UNCHANGED <<args, stream, file_reads, image_data, params, data>>

(* lines 216-221: requests.post is called once; it returns or raises *)
Send(c) ==
    /\ pc[c] = "send"
    /\ \E t \in Transports :
          /\ requests' = [requests EXCEPT ![c] =
                Append(@, [url |-> IMGBB_API_URL, params |-> params[c],
                           data |-> data[c], timeout |-> UPLOAD_TIMEOUT])]
          /\ response' = [response EXCEPT ![c] = t]
    /\ Continue(c, "send", "interpret")
    /\ UNCHANGED <<args, stream, file_reads, image_data, params, data>>

(* lines 223-261 *)
Interpret(c) ==
    /\ pc[c] = "interpret"
    /\ Finish(c, "interpret", InterpretTransport(response[c]))
    /\ UNCHANGED <<args, stream, file_reads, image_data, params, data, requests, response>>

Next ==
    \E c \in Calls :
        \/ ValidateKey(c)
        \/ ValidateExpiration(c)
        \/ Normalize(c)
        \/ BuildRequest(c)
        \/ Send(c)
        \/ Interpret(c)

Spec == Init /\ [][Next]_vars

-----------------------------------------------------------------------------
(* Two calls of imgbb_upload running concurrently (two threads), each with *)
(* its own arguments; the steps of the calls interleave in any order.  The *)
(* function keeps everything in locals and the module holds only constants *)
(* (lines 22-37), so each call has its own copy of every variable.         *)

ConcCalls == {1, 2}

ConcKeys == { PyNone, PyStr(<<"k">>) }

ConcImages ==
    { Bytes(<<77>>),
      [t |-> "stream", has_name |-> TRUE,
       name |-> [text |-> "photo.png", suffix |-> <<".", "p", "n", "g">>],
       read |-> "bytes", seek |-> "ok", pos |-> 0, content |-> StreamContent] }

ConcOptions ==
    { [name |-> Text(""), expiration |-> PyNone],
      [name |-> Text("my-image"), expiration |-> PyInt(3600)] }

ConcArguments ==
    { [key |-> k, image |-> i, name |-> o.name, expiration |-> o.expiration]
        : k \in ConcKeys, i \in ConcImages, o \in ConcOptions }

InitConc ==
    /\ args \in [ConcCalls -> ConcArguments]
    /\ pc = [c \in ConcCalls |-> "validate_key"]
    /\ visited = [c \in ConcCalls |-> <<>>]
    /\ stream = [c \in ConcCalls |-> InitialStream(args[c].image)]
    /\ file_reads = [c \in ConcCalls |-> 0]
    /\ image_data = [c \in ConcCalls |-> Text("")]
    /\ params = [c \in ConcCalls |-> <<>>]
    /\ data = [c \in ConcCalls |-> <<>>]
    /\ requests = [c \in ConcCalls |-> <<>>]
    /\ response = [c \in ConcCalls |-> NoResponse]
    /\ outcome = [c \in ConcCalls |-> Pending]

NextConc ==
    \E c \in ConcCalls :
        \/ ValidateKey(c)
        \/ ValidateExpiration(c)
        \/ Normalize(c)
        \/ BuildRequest(c)
        \/ Send(c)
        \/ Interpret(c)

SpecConc == InitConc /\ [][NextConc]_vars

-----------------------------------------------------------------------------
(* Vocabulary of the properties, stated on the arguments and on what the   *)
(* transport did rather than on the program's own checks                   *)

Done(c) == pc[c] = "done"

RaisedCls(c, cls) == outcome[c].kind = "raise" /\ outcome[c].e.cls = cls

RaisedWith(c, cls, msg) == RaisedCls(c, cls) /\ outcome[c].e.msg = msg

IsPrefix(p, q) == Len(p) <= Len(q) /\ \A i \in 1..Len(p) : p[i] = q[i]

(* a usable API key: a string with a character that is not whitespace *)
KeyUsable(key) ==
    key.t = "str" /\ \E i \in 1..Len(key.s) : key.s[i] \notin WhitespaceChars

(* an integer expiration (bool counts, as in Python) *)
IntegerExpiration(e) == e.t \in {"int", "bool"}

ExpirationInRange(e) ==
    IntegerExpiration(e) /\ MIN_EXPIRATION <= IntValue(e) /\ IntValue(e) <= MAX_EXPIRATION

ExpirationOutOfRange(e) ==
    IntegerExpiration(e) /\ IntValue(e) /= 0 /\ ~ExpirationInRange(e)

(* every input check of the call passes *)
InputsValid(c) ==
    /\ KeyUsable(args[c].key)
    /\ CheckExpiration(args[c].expiration).ok
    /\ PrepareImage(args[c].image, InitialStream(args[c].image)).res.ok

-----------------------------------------------------------------------------
(* C1: a call that ends with ImgBBValidationError has sent no HTTP request, *)
(* a call that has sent its request does not end with ImgBBValidationError, *)
(* and the stages run in the order validate key, validate expiration,       *)
(* normalize, build, send, interpret, each at most once: the stages a call  *)
(* has executed are always a prefix of that order, the stage it executes    *)
(* next is the one after the prefix, and a request has been sent only once  *)
(* the first five have run.                                                 *)
C1_StagesLinearValidationFirst ==
    \A c \in Calls :
        /\ IsPrefix(visited[c], StageOrder)
        /\ ~Done(c) => pc[c] = StageOrder[Len(visited[c]) + 1]
        /\ RaisedCls(c, "ImgBBValidationError") => requests[c] = <<>>
        /\ requests[c] /= <<>> =>
              /\ ~RaisedCls(c, "ImgBBValidationError")
              /\ SubSeq(visited[c], 1, 5) = SubSeq(StageOrder, 1, 5)

C1_Witness ==
    \E c \in Calls :
        /\ Done(c)
        /\ visited[c] = StageOrder
        /\ requests[c] /= <<>>
        /\ RaisedCls(c, "ImgBBAPIError")

(* C2: a call issues at most one HTTP POST, whatever the transport does    *)
(* with it, and a finished call has issued exactly one when key,           *)
(* expiration and image all pass validation.                               *)
C2_AtMostOneRequest ==
    \A c \in Calls :
        /\ Len(requests[c]) <= 1
        /\ Done(c) /\ InputsValid(c) => Len(requests[c]) = 1

C2_Witness ==
    \E c \in Calls :
        /\ Done(c)
        /\ InputsValid(c)
        /\ response[c].raised
        /\ Len(requests[c]) = 1

(* the decimal numeral of the in-range expirations of the model *)
Numeral(n) ==
    CASE n = 60 -> "60"
      [] n = 3600 -> "3600"
      [] n = 15552000 -> "15552000"

(* C3: every request carries the key parameter, equal to the key argument; *)
(* for an integer expiration in [60, 15552000] it carries expiration, the  *)
(* decimal numeral of that value; for expiration 0 it carries no           *)
(* expiration parameter.                                                   *)
C3_ExpirationForwarded ==
    \A c \in Calls : \A i \in 1..Len(requests[c]) :
        LET q == requests[c][i].params
            e == args[c].expiration
        IN  /\ "key" \in DOMAIN q
            /\ q.key = args[c].key
            /\ e.t = "int" /\ ExpirationInRange(e) =>
                  /\ "expiration" \in DOMAIN q
                  /\ q.expiration = Numeral(e.n)
            /\ e = PyInt(0) => DOMAIN q = {"key"}

C3_Witness ==
    \E c \in Calls :
        /\ requests[c] /= <<>>
        /\ args[c].expiration = PyInt(MAX_EXPIRATION)
        /\ requests[c][1].params.expiration = "15552000"

(* C4 as stated: for every integer expiration outside [60, 15552000] other *)
(* than 0 the call raises ImgBBValidationError with the message            *)
(* "Expiration must be a number between 60 and 15552000 seconds" and sends *)
(* no request.                                                             *)
C4_Original ==
    \A c \in Calls :
        ExpirationOutOfRange(args[c].expiration) =>
            /\ requests[c] = <<>>
            /\ Done(c) =>
                  RaisedWith(c, "ImgBBValidationError",
                      "Expiration must be a number between 60 and 15552000 seconds")

(* C4 amended: for every integer expiration outside [60, 15552000] other   *)
(* than 0 the call raises ImgBBValidationError and sends no request,       *)
(* whatever the image is; the message is the expiration-range message when *)
(* the API key is usable, and the API-key message otherwise.               *)
C4_OutOfRangeRejected ==
    \A c \in Calls :
        ExpirationOutOfRange(args[c].expiration) =>
            /\ requests[c] = <<>>
            /\ Done(c) =>
                  IF KeyUsable(args[c].key)
                  THEN /\ RaisedWith(c, "ImgBBValidationError",
                            "Expiration must be a number between 60 and 15552000 seconds")
                       /\ visited[c] = <<"validate_key", "validate_expiration">>
                  ELSE RaisedWith(c, "ImgBBValidationError", KeyRequiredMsg)

C4_Witness ==
    \E c \in Calls :
        /\ Done(c)
        /\ args[c].expiration = PyInt(MAX_EXPIRATION + 1)
        /\ KeyUsable(args[c].key)
        /\ args[c].image \in OtherImages
        /\ RaisedWith(c, "ImgBBValidationError", ExpirationRangeMsg)

(* C5: a key that is empty, whitespace-only, None or not a string makes    *)
(* the call raise ImgBBValidationError "ImgBB API key is required and must *)
(* be a non-empty string" at the first stage: no other stage runs, the     *)
(* image is not read and no request is sent, whatever the image and the    *)
(* expiration are.                                                         *)
C5_KeyCheckedFirst ==
    \A c \in Calls :
        ~KeyUsable(args[c].key) =>
            /\ requests[c] = <<>>
            /\ stream[c] = InitialStream(args[c].image)
            /\ Done(c) =>
                  /\ RaisedWith(c, "ImgBBValidationError",
                        "ImgBB API key is required and must be a non-empty string")
                  /\ visited[c] = <<"validate_key">>

C5_Witness ==
    \E c \in Calls :
        /\ Done(c)
        /\ args[c].key = PyStr(<<" ", "\t">>)
        /\ ExpirationOutOfRange(args[c].expiration)
        /\ args[c].image \in OtherImages
        /\ RaisedCls(c, "ImgBBValidationError")

(* the call failed: an input is invalid, the transport raised, the status  *)
(* is not 200, or the body is not a JSON object whose success flag is      *)
(* present and not false                                                   *)
Failed(c) ==
    \/ ~InputsValid(c)
    \/ response[c].raised
    \/ response[c].status_code /= 200
    \/ ~response[c].json.ok
    \/ response[c].json.v.t /= "obj"
    \/ "success" \notin DOMAIN response[c].json.v.f
    \/ response[c].json.v.f.success = JBool(FALSE)

(* C6: a finished call has returned or raised; what it raises is one of    *)
(* ImgBBValidationError, ImgBBAPIError, ImgBBTimeoutError, each a subtype  *)
(* of ImgBBError; and a failed call raises, it never returns.              *)
C6_TypedErrorsOnly ==
    \A c \in Calls :
        Done(c) =>
            /\ outcome[c].kind \in {"return", "raise"}
            /\ outcome[c].kind = "raise" =>
                  /\ outcome[c].e.cls \in
                        {"ImgBBValidationError", "ImgBBAPIError", "ImgBBTimeoutError"}
                  /\ "ImgBBError" \in Bases(outcome[c].e.cls)
            /\ Failed(c) => outcome[c].kind = "raise"

C6_Witness ==
    \E c \in Calls :
        /\ Done(c)
        /\ KeyUsable(args[c].key)
        /\ args[c].image.t = "stream"
        /\ args[c].image.read = "raises"
        /\ RaisedWith(c, "ImgBBValidationError",
               "Failed to prepare image data: I/O operation on closed file.")

-----------------------------------------------------------------------------
(* the transport returned a response to call c, and the call has finished *)
Answered(c) == Done(c) /\ requests[c] /= <<>> /\ ~response[c].raised

(* the body of the response is JSON *)
Parseable(resp) == resp.json.ok

(* the body is a JSON object with member k *)
HasMember(resp, k) ==
    Parseable(resp) /\ resp.json.v.t = "obj" /\ k \in DOMAIN resp.json.v.f

(* the body is a JSON object whose error member is an object *)
HasErrorObject(resp) == HasMember(resp, "error") /\ resp.json.v.f.error.t = "obj"

(* the body is a JSON object whose error member is an object with a message *)
HasErrorMessage(resp) ==
    HasErrorObject(resp) /\ "message" \in DOMAIN resp.json.v.f.error.f

ErrorMessage(resp) == Format(resp.json.v.f.error.f.message)

(* Python's test "error" in body is false: an object without that member,  *)
(* an array without that element, a string without that substring          *)
LacksError(resp) ==
    /\ Parseable(resp)
    /\ \/ resp.json.v.t = "obj" /\ "error" \notin DOMAIN resp.json.v.f
       \/ resp.json.v.t = "arr" /\ \A i \in 1..Len(resp.json.v.a) :
                                        resp.json.v.a[i] /= JStr("error")
       \/ resp.json.v.t = "str" /\ resp.json.v.s \notin StringsContainingError

(* C7 as stated: on a non-200 status the call raises ImgBBAPIError with    *)
(* that status_code and the raw body as response_text, and the message is  *)
(* "... HTTP <status>" followed by the API's error message if the body is  *)
(* parseable JSON containing one, and by the raw body otherwise.           *)
C7_Original ==
    \A c \in Calls :
        Answered(c) /\ response[c].status_code /= 200 =>
            LET resp == response[c]
            IN  /\ RaisedCls(c, "ImgBBAPIError")
                /\ outcome[c].e.status_code = resp.status_code
                /\ outcome[c].e.response_text = resp.text
                /\ outcome[c].e.msg =
                      "ImgBB API error: HTTP " \o IntToStr(resp.status_code) \o ": "
                          \o (IF HasErrorMessage(resp) THEN ErrorMessage(resp) ELSE resp.text)

(* C7 amended: on a non-200 status the call raises ImgBBAPIError with that *)
(* status_code and the raw body as response_text; the message is           *)
(* "ImgBB API error: HTTP <status>" followed by ": " and the API's error   *)
(* message if the body is a JSON object whose error member is an object    *)
(* with a message, by ": Unknown error" if that object has no message, by  *)
(* nothing if the body is JSON in which "error" is not found, and by ": "  *)
(* and the raw body in every other case (the body is not JSON, or its      *)
(* error member cannot be read as an object).                              *)
C7_HttpErrorReported ==
    \A c \in Calls :
        Answered(c) /\ response[c].status_code /= 200 =>
            LET resp == response[c]
                head == CASE resp.status_code = 201 -> "ImgBB API error: HTTP 201"
                          [] resp.status_code = 403 -> "ImgBB API error: HTTP 403"
                          [] OTHER -> "ImgBB API error: HTTP " \o IntToStr(resp.status_code)
            IN  /\ RaisedCls(c, "ImgBBAPIError")
                /\ outcome[c].e.status_code = resp.status_code
                /\ outcome[c].e.response_text = resp.text
                /\ outcome[c].e.msg =
                      head \o (CASE HasErrorMessage(resp) -> ": " \o ErrorMessage(resp)
                                 [] HasErrorObject(resp) /\ ~HasErrorMessage(resp) ->
                                        ": Unknown error"
                                 [] LacksError(resp) -> ""
                                 [] OTHER -> ": " \o resp.text)

C7_Witness ==
    \E c \in Calls :
        /\ Answered(c)
        /\ response[c].status_code = 403
        /\ HasErrorMessage(response[c])
        /\ RaisedWith(c, "ImgBBAPIError", "ImgBB API error: HTTP 403: Invalid API key")

(* the success flag of the body is false or absent *)
Unsuccessful(resp) ==
    /\ Parseable(resp)
    /\ resp.json.v.t = "obj"
    /\ \/ "success" \notin DOMAIN resp.json.v.f
       \/ resp.json.v.f.success = JBool(FALSE)

(* C8: on status 200 with a JSON object whose success flag is false or     *)
(* absent, the call raises ImgBBAPIError with status_code 200 and the raw  *)
(* body as response_text, whatever the shape of the error member is, and   *)
(* its message is "Upload failed: " and the API's error message when there *)
(* is one, "Unknown error" otherwise.                                      *)
C8_UnsuccessfulBodyReported ==
    \A c \in Calls :
        Answered(c) /\ response[c].status_code = 200 /\ Unsuccessful(response[c]) =>
            /\ RaisedCls(c, "ImgBBAPIError")
            /\ outcome[c].e.status_code = 200
            /\ outcome[c].e.response_text = response[c].text
            /\ outcome[c].e.msg =
                  "Upload failed: " \o (IF HasErrorMessage(response[c])
                                         THEN ErrorMessage(response[c])
                                         ELSE "Unknown error")

(* C9: on status 200 with a JSON object whose success flag is true the     *)
(* call returns the parsed body itself: the same members at the top level, *)
(* and the data member with its image, thumb and medium records equal to   *)
(* those of the body.                                                      *)
C9_BodyReturnedVerbatim ==
    \A c \in Calls :
        /\ Answered(c)
        /\ response[c].status_code = 200
        /\ HasMember(response[c], "success")
        /\ response[c].json.v.f.success = JBool(TRUE)
        => LET body == response[c].json.v
           IN  /\ outcome[c].kind = "return"
               /\ outcome[c].value = body
               /\ outcome[c].value.t = "obj"
               /\ DOMAIN outcome[c].value.f = DOMAIN body.f
               /\ \A k \in DOMAIN body.f : outcome[c].value.f[k] = body.f[k]
               /\ "data" \in DOMAIN body.f =>
                     \A v \in {"image", "thumb", "medium"} :
                         outcome[c].value.f.data.f[v] = body.f.data.f[v]

C9_Witness ==
    \E c \in Calls :
        /\ Answered(c)
        /\ outcome[c].kind = "return"
        /\ outcome[c].value.f.success = JBool(TRUE)
        /\ "data" \in DOMAIN outcome[c].value.f
        /\ outcome[c].value.f.data.f.thumb.f.url = JStr("https://i.ibb.co/2ndCYJK/test-image.png")

(* the transport raised a timeout: requests' ReadTimeout or ConnectTimeout *)
TimedOut(c) ==
    /\ requests[c] /= <<>>
    /\ response[c].raised
    /\ response[c].exc.cls \in {"ReadTimeout", "ConnectTimeout"}

(* C10: a finished call has raised ImgBBTimeoutError exactly when the      *)
(* transport raised a timeout (a connect timeout included), and the        *)
(* message is then "Upload timed out after 30 seconds".                    *)
C10_TimeoutReported ==
    \A c \in Calls :
        Done(c) =>
            /\ RaisedCls(c, "ImgBBTimeoutError") <=> TimedOut(c)
            /\ TimedOut(c) => outcome[c].e.msg = "Upload timed out after 30 seconds"

C10_Witness ==
    \E c \in Calls :
        /\ Done(c)
        /\ TimedOut(c)
        /\ response[c].exc.cls = "ConnectTimeout"
        /\ RaisedCls(c, "ImgBBTimeoutError")

-----------------------------------------------------------------------------
(* the messages of the exceptions the transport and response.json() raise *)
LibraryMessages ==
    { t.exc.msg : t \in TransportFailures }
    \cup { b.json.e.msg : b \in { x \in Bodies : ~x.json.ok } }

(* call c raised ImgBBAPIError with a message that starts "Network error" *)
NetworkErrorRaised(c) ==
    /\ RaisedCls(c, "ImgBBAPIError")
    /\ \E m \in LibraryMessages : outcome[c].e.msg = "Network error: " \o m

(* the transport failed without a response, and not by a timeout: a        *)
(* connection or TLS failure                                               *)
NetworkFailure(c) ==
    /\ requests[c] /= <<>>
    /\ response[c].raised
    /\ response[c].exc.cls \in {"ConnectionError", "SSLError"}

(* C11: a finished call has raised an ImgBBAPIError whose message starts   *)
(* "Network error" exactly when the transport failed, not by a timeout,    *)
(* without delivering a response; in particular never when a response was  *)
(* received, whatever its status and body.                                 *)
C11_NetworkErrorOnlyWithoutResponse ==
    \A c \in Calls :
        Done(c) =>
            /\ NetworkErrorRaised(c) <=> NetworkFailure(c)
            /\ Answered(c) => ~NetworkErrorRaised(c)

-----------------------------------------------------------------------------
(* the image argument is a string that the call treats as a file path *)
PathInput(image) == image.t = "str" /\ ~_is_url(image)

(* the name the claim expects in the request: the name argument, else the  *)
(* filename of a path or of a named stream, else none                      *)
EffectiveName(a) ==
    IF a.name.s /= "" THEN a.name
    ELSE IF PathInput(a.image) THEN Text(a.image.text)
    ELSE IF a.image.t = "stream" /\ a.image.has_name THEN Text(a.image.name.text)
    ELSE Text("")

(* C12 as stated: the request body has a name field exactly when the       *)
(* effective name is non-empty, and the field is the effective name: the   *)
(* name argument, otherwise the filename the input supplies.               *)
C12_Original ==
    \A c \in Calls : \A i \in 1..Len(requests[c]) :
        LET body == requests[c][i].data
            eff == EffectiveName(args[c])
        IN  /\ "name" \in DOMAIN body <=> eff.s /= ""
            /\ "name" \in DOMAIN body => body.name = eff

(* C12 amended: the request body has a name field exactly when the name    *)
(* argument is non-empty, and the field is then the name argument; the     *)
(* filename of a path or of a stream is never sent as the name.            *)
C12_NameOnlyWhenGiven ==
    \A c \in Calls : \A i \in 1..Len(requests[c]) :
        LET body == requests[c][i].data
        IN  /\ "image" \in DOMAIN body
            /\ "name" \in DOMAIN body <=> args[c].name.s /= ""
            /\ "name" \in DOMAIN body => body.name = args[c].name
            /\ args[c].name.s = "" => DOMAIN body = {"image"}

C12_Witness ==
    \E c \in Calls :
        /\ requests[c] /= <<>>
        /\ args[c].image.t = "stream"
        /\ args[c].image.has_name
        /\ args[c].name = Text("")
        /\ DOMAIN requests[c][1].data = {"image"}

-----------------------------------------------------------------------------
(* the suffix, compared without regard to case, is a supported extension *)
ExtensionSupported(suffix) ==
    \E e \in SUPPORTED_EXTENSIONS :
        /\ Len(e) = Len(suffix)
        /\ \A i \in 1..Len(e) : LowerChar(suffix[i]) = e[i]

(* a path input whose file exists, is a regular file and is not oversized, *)
(* in a call whose key and expiration are accepted: the call gets to the   *)
(* extension check of the path                                             *)
PathTypeChecked(c) ==
    /\ PathInput(args[c].image)
    /\ KeyUsable(args[c].key)
    /\ CheckExpiration(args[c].expiration).ok
    /\ args[c].image.file.exists
    /\ args[c].image.file.is_file
    /\ args[c].image.file.size <= MAX_FILE_SIZE

InvalidTypeRaised(c) ==
    /\ RaisedCls(c, "ImgBBValidationError")
    /\ outcome[c].e.msg =
          "Invalid image type" \o ". Supported formats: JPEG, PNG, GIF, BMP, WEBP. Got: "
              \o Join(Lower(args[c].image.suffix))

(* C13: for a path input that gets to the extension check, a file whose    *)
(* extension, compared case-insensitively, is one of jpg, jpeg, png, gif,  *)
(* bmp, webp, or that has no extension, passes the check (the file is then *)
(* opened and no "Invalid image type" error is raised); a file with any    *)
(* other extension fails with ImgBBValidationError "Invalid image type..." *)
(* naming the extension, is not opened, and no request is sent.  A path    *)
(* with an unsupported extension never leads to a request.                 *)
C13_ExtensionChecked ==
    \A c \in Calls :
        LET suffix == args[c].image.suffix
        IN  /\ (Done(c) /\ PathTypeChecked(c)) =>
                  IF suffix = <<>> \/ ExtensionSupported(suffix)
                  THEN file_reads[c] = 1 /\ ~InvalidTypeRaised(c)
                  ELSE /\ InvalidTypeRaised(c)
                       /\ file_reads[c] = 0
                       /\ requests[c] = <<>>
            /\ (PathInput(args[c].image) /\ suffix /= <<>> /\ ~ExtensionSupported(suffix))
                  => requests[c] = <<>>

C13_Witness ==
    \E c \in Calls :
        /\ PathTypeChecked(c)
        /\ args[c].image.suffix = <<".", "P", "N", "G">>
        /\ file_reads[c] = 1
        /\ requests[c] /= <<>>
        /\ outcome[c].kind = "return"

-----------------------------------------------------------------------------
(* a path input in a call whose key and expiration are accepted: the call  *)
(* gets to the checks of the file                                          *)
PathChecked(c) ==
    /\ PathInput(args[c].image)
    /\ KeyUsable(args[c].key)
    /\ CheckExpiration(args[c].expiration).ok

SizeErrorRaised(c) ==
    /\ RaisedCls(c, "ImgBBValidationError")
    /\ outcome[c].e.msg =
          "File size (" \o IntToStr(args[c].image.file.size)
              \o " bytes) exceeds maximum allowed size (33554432 bytes)"

(* C14: for a path input whose checks are reached, a missing path is       *)
(* reported first, then a path that is not a regular file, then a file of  *)
(* more than 33554432 bytes, which fails with ImgBBValidationError naming  *)
(* its size and the limit whatever its extension is; the extension is      *)
(* checked only after these, so a file of at most 33554432 bytes is never  *)
(* rejected for size and is opened when its extension is accepted.  An     *)
(* oversized file is never opened and never leads to a request.            *)
C14_SizeCheckedBeforeType ==
    \A c \in Calls :
        LET image == args[c].image
        IN  /\ (Done(c) /\ PathChecked(c)) =>
                  CASE ~image.file.exists ->
                          RaisedWith(c, "ImgBBValidationError",
                                     "File not found: " \o image.text)
                    [] image.file.exists /\ ~image.file.is_file ->
                          RaisedWith(c, "ImgBBValidationError",
                                     "Path is not a file: " \o image.text)
                    [] image.file.exists /\ image.file.is_file
                          /\ image.file.size > 33554432 ->
                          SizeErrorRaised(c)
                    [] OTHER ->
                          /\ ~SizeErrorRaised(c)
                          /\ (image.suffix = <<>> \/ ExtensionSupported(image.suffix))
                                => file_reads[c] = 1
            /\ (PathInput(image) /\ image.file.exists /\ image.file.is_file
                  /\ image.file.size > 33554432)
                  => file_reads[c] = 0 /\ requests[c] = <<>>

C14_Witness ==
    \E c \in Calls :
        /\ PathChecked(c)
        /\ args[c].image.file.size = 33554433
        /\ args[c].image.suffix = <<".", "t", "x", "t">>
        /\ SizeErrorRaised(c)
        /\ file_reads[c] = 0

-----------------------------------------------------------------------------
(* the string parses as a URI with both a scheme and a host *)
AbsoluteUri(image) ==
    /\ image.t = "str"
    /\ ~image.url.raises
    /\ image.url.scheme /= ""
    /\ image.url.netloc /= ""

(* C15: a string image argument that parses as a URI with both a scheme    *)
(* and a host is forwarded verbatim: once key and expiration are accepted  *)
(* the call sends a request, whatever the string's extension and whatever  *)
(* the file system holds under that name, the image field of the request   *)
(* is the string itself, and nothing is read from disk.  Any other string  *)
(* is treated as a file path: the string itself is never sent, what is     *)
(* sent is base64 text, and a path that does not exist is reported as      *)
(* "File not found".                                                       *)
C15_UrlForwardedVerbatim ==
    \A c \in Calls :
        LET image == args[c].image
            accepted == KeyUsable(args[c].key) /\ CheckExpiration(args[c].expiration).ok
        IN  image.t = "str" =>
                IF AbsoluteUri(image)
                THEN /\ file_reads[c] = 0
                     /\ \A i \in 1..Len(requests[c]) :
                            requests[c][i].data.image = Text(image.text)
                     /\ (Done(c) /\ accepted) => requests[c] /= <<>>
                ELSE /\ \A i \in 1..Len(requests[c]) :
                            /\ requests[c][i].data.image.t = "b64"
                            /\ file_reads[c] = 1
                     /\ (Done(c) /\ accepted /\ ~image.file.exists) =>
                            RaisedWith(c, "ImgBBValidationError",
                                       "File not found: " \o image.text)

C15_Witness ==
    \E c \in Calls :
        /\ AbsoluteUri(args[c].image)
        /\ args[c].image.suffix = <<".", "t", "x", "t">>
        /\ args[c].image.file.exists
        /\ requests[c] /= <<>>
        /\ requests[c][1].data.image = Text("https://example.com/notes.txt")
        /\ file_reads[c] = 0

-----------------------------------------------------------------------------
(* Standard base64 decoding (RFC 4648): the value of a character, and the  *)
(* bytes of a padded text; <<-1>> when the text is not base64              *)
B64Value(ch) ==
    IF \E v \in 0..63 : B64Alphabet[v + 1] = ch
    THEN CHOOSE v \in 0..63 : B64Alphabet[v + 1] = ch
    ELSE -1

RECURSIVE B64Decode(_)
B64Decode(chars) ==
    IF chars = <<>> THEN <<>>
    ELSE IF Len(chars) < 4 \/ B64Value(chars[1]) < 0 \/ B64Value(chars[2]) < 0
    THEN <<-1>>
    ELSE LET v1 == B64Value(chars[1])
             v2 == B64Value(chars[2])
             v3 == B64Value(chars[3])
             v4 == B64Value(chars[4])
         IN  IF chars[3] = "=" /\ chars[4] = "=" /\ Len(chars) = 4
             THEN << v1 * 4 + v2 \div 16 >>
             ELSE IF v3 >= 0 /\ chars[4] = "=" /\ Len(chars) = 4
             THEN << v1 * 4 + v2 \div 16, (v2 % 16) * 16 + v3 \div 4 >>
             ELSE IF v3 >= 0 /\ v4 >= 0
             THEN << v1 * 4 + v2 \div 16, (v2 % 16) * 16 + v3 \div 4, (v3 % 4) * 64 + v4 >>
                    \o B64Decode(SubSeq(chars, 5, Len(chars)))
             ELSE <<-1>>

(* the bytes the input supplies: the bytes argument, the content of the    *)
(* file at the path, what the stream holds from its read position on       *)
InputBytes(image) ==
    CASE image.t = "bytes" -> image
      [] image.t = "str" -> image.file.content
      [] image.t = "stream" ->
            Bytes(SubSeq(image.content, image.pos + 1, Len(image.content)))

BinaryInput(image) ==
    image.t \in {"bytes", "stream"} \/ PathInput(image)

(* C16: for bytes, file-path and stream input the image field of every     *)
(* request is the base64 text of the input's bytes: N bytes are sent as    *)
(* 4 * ceil(N / 3) characters, and decoding the characters gives the       *)
(* input's bytes back, the same in number and in content, the empty input  *)
(* included.  (Of a file too long to write out, the leading bytes.)        *)
C16_Base64RoundTrip ==
    \A c \in Calls : \A i \in 1..Len(requests[c]) :
        BinaryInput(args[c].image) =>
            LET sent == requests[c][i].data.image
                input == InputBytes(args[c].image)
            IN  /\ sent.t = "b64"
                /\ sent.len = 4 * ((input.len + 2) \div 3)
                /\ B64Decode(sent.head) = input.head
                /\ input.len = Len(input.head) =>
                      /\ sent.len = Len(sent.head)
                      /\ Len(B64Decode(sent.head)) = input.len

C16_Witness ==
    \E c \in Calls :
        /\ args[c].image = Bytes(<<255, 77>>)
        /\ requests[c] /= <<>>
        /\ requests[c][1].data.image.head = <<"/", "0", "0", "=">>
        /\ B64Decode(requests[c][1].data.image.head) = <<255, 77>>

-----------------------------------------------------------------------------
(* the image argument is a stream whose seek works *)
SeekableStream(image) == image.t = "stream" /\ image.seek = "ok"

(* C17: after a call with a seekable stream has finished, on whatever exit *)
(* path, the read position of the stream is the position it had before the *)
(* call.                                                                   *)
C17_StreamPositionRestored ==
    \A c \in Calls :
        (Done(c) /\ SeekableStream(args[c].image)) =>
            stream[c].pos = args[c].image.pos

-----------------------------------------------------------------------------
(* key and expiration of the call are accepted: the call gets to the       *)
(* normalization of the image                                              *)
NormalizationReached(c) ==
    KeyUsable(args[c].key) /\ CheckExpiration(args[c].expiration).ok

(* the name of the stream, if it has one, passes the extension check *)
StreamNameAccepted(image) ==
    ~image.has_name \/ image.name.suffix = <<>> \/ ExtensionSupported(image.name.suffix)

PrepareFailed(c, detail) ==
    /\ RaisedWith(c, "ImgBBValidationError", "Failed to prepare image data: " \o detail)
    /\ requests[c] = <<>>

(* C18: a call that gets to normalization and whose stream raises on read  *)
(* or on seek, whose stream yields text instead of bytes, or whose file    *)
(* cannot be opened, ends with ImgBBValidationError "Failed to prepare     *)
(* image data: " followed by the message of the failure; an image argument *)
(* of an unsupported type ends with ImgBBValidationError "Image must be a  *)
(* file path (str), URL (str), bytes, or file-like object"; whenever       *)
(* normalization fails the call ends with ImgBBValidationError and no      *)
(* request is sent.                                                        *)
C18_NormalizationFailuresWrapped ==
    \A c \in Calls :
        LET image == args[c].image
        IN  /\ (Done(c) /\ NormalizationReached(c)) =>
                  /\ (image.t = "stream" /\ image.read = "raises") =>
                        PrepareFailed(c, "I/O operation on closed file.")
                  /\ (image.t = "stream" /\ image.read /= "raises"
                        /\ image.seek = "raises") =>
                        PrepareFailed(c, "underlying stream is not seekable")
                  /\ (image.t = "stream" /\ image.read = "text"
                        /\ image.seek /= "raises" /\ StreamNameAccepted(image)) =>
                        PrepareFailed(c, "a bytes-like object is required, not 'str'")
                  /\ (PathTypeChecked(c) /\ image.file.open_raises
                        /\ (image.suffix = <<>> \/ ExtensionSupported(image.suffix))) =>
                        PrepareFailed(c, "[Errno 13] Permission denied: " \o image.text)
                  /\ image.t \notin {"str", "bytes", "stream"} =>
                        /\ RaisedWith(c, "ImgBBValidationError",
                              "Image must be a file path (str), URL (str), bytes, or file-like object")
                        /\ requests[c] = <<>>
                  /\ ~_prepare_image_data(image, InitialStream(image)).res.ok =>
                        RaisedCls(c, "ImgBBValidationError")
            /\ ~_prepare_image_data(image, InitialStream(image)).res.ok =>
                  requests[c] = <<>>

C18_Witness ==
    \E c \in Calls :
        /\ NormalizationReached(c)
        /\ args[c].image.t = "stream"
        /\ args[c].image.seek = "raises"
        /\ stream[c].reads = 1
        /\ PrepareFailed(c, "underlying stream is not seekable")

-----------------------------------------------------------------------------
(* C20: a call with a usable key whose expiration is not an integer (a     *)
(* string, a float, None, the empty string) ends with ImgBBValidationError *)
(* "Expiration must be an integer", and a call whose expiration is not an  *)
(* integer never sends a request.                                          *)
C20_NonIntegerExpirationRejected ==
    \A c \in Calls :
        ~IntegerExpiration(args[c].expiration) =>
            /\ requests[c] = <<>>
            /\ (Done(c) /\ KeyUsable(args[c].key)) =>
                  RaisedWith(c, "ImgBBValidationError", "Expiration must be an integer")

-----------------------------------------------------------------------------
(* what one call with arguments a does when run alone and the transport    *)
(* answers its request with resp: the requests it sends, how it ends, and  *)
(* the state it leaves its stream in                                       *)
RunAlone(a, resp) ==
    LET k == _validate_api_key(a.key)
        e == CheckExpiration(a.expiration)
        p == PrepareImage(a.image, InitialStream(a.image))
    IN  IF ~k.ok
        THEN [requests |-> <<>>, outcome |-> Raised(k.e),
              stream |-> InitialStream(a.image)]
        ELSE IF ~e.ok
        THEN [requests |-> <<>>, outcome |-> Raised(e.e),
              stream |-> InitialStream(a.image)]
        ELSE IF ~p.res.ok
        THEN [requests |-> <<>>, outcome |-> Raised(p.res.e), stream |-> p.stream]
        ELSE [requests |-> << [url |-> IMGBB_API_URL,
                               params |-> BuildParams(a.key, a.expiration),
                               data |-> BuildData(p.res.v, a.name),
                               timeout |-> UPLOAD_TIMEOUT] >>,
              outcome |-> InterpretTransport(resp),
              stream |-> p.stream]

(* everything call c owns *)
Local(c) ==
    << args[c], pc[c], visited[c], stream[c], file_reads[c], image_data[c],
       params[c], data[c], requests[c], response[c], outcome[c] >>

(* a finished call has sent and produced what it would have when run alone *)
IndependentResults ==
    \A c \in ConcCalls :
        Done(c) =>
            /\ requests[c] = RunAlone(args[c], response[c]).requests
            /\ outcome[c] = RunAlone(args[c], response[c]).outcome
            /\ stream[c] = RunAlone(args[c], response[c]).stream

(* a step is taken by one call and leaves everything of the others as it is *)
OneCallSteps ==
    \E c \in ConcCalls : \A d \in ConcCalls \ {c} : Local(d)' = Local(d)

(* C19: under every interleaving of two calls, the request each call sends *)
(* and the result or error it ends with are those of the call run alone on *)
(* its own arguments and its own transport response, and no step of one    *)
(* call changes anything the other call owns.                              *)
C19_ConcurrentCallsIndependent ==
    []IndependentResults /\ [][OneCallSteps]_vars

C19_Witness ==
    /\ DOMAIN pc = ConcCalls
    /\ Done(1) /\ Done(2)
    /\ args[1] /= args[2]
    /\ requests[1] /= <<>> /\ requests[2] /= <<>>
    /\ requests[1] /= requests[2]
    /\ outcome[1].kind = "return"
    /\ RaisedCls(2, "ImgBBAPIError")

-----------------------------------------------------------------------------
(* the call has ended with ImgBBValidationError "Invalid image type ..." *)
InvalidTypeError(c) ==
    /\ RaisedCls(c, "ImgBBValidationError")
    /\ \E u \in UrlStrings \cup PathStrings \cup StreamNames :
          outcome[c].e.msg =
              "Invalid image type" \o ". Supported formats: JPEG, PNG, GIF, BMP, WEBP. Got: "
                  \o Join(Lower(u.suffix))

(* the image argument carries no filename: bytes, or a stream without name *)
Nameless(image) ==
    image.t = "bytes" \/ (image.t = "stream" /\ ~image.has_name)

(* a stream with a name whose read and seek do not raise, in a call that   *)
(* gets to normalization: the call gets to the extension check of the name *)
StreamTypeChecked(c) ==
    /\ NormalizationReached(c)
    /\ args[c].image.t = "stream"
    /\ args[c].image.has_name
    /\ args[c].image.read /= "raises"
    /\ args[c].image.seek /= "raises"

(* C21: bytes and streams without a name never end with "Invalid image     *)
(* type", whatever they hold, and bytes whose call gets to normalization   *)
(* are sent; a stream with a name is checked by the rule of path input: a  *)
(* name whose extension, compared case-insensitively, is supported, or     *)
(* that has no extension, passes, and any other name ends the call with    *)
(* ImgBBValidationError "Invalid image type ..." naming the extension, no  *)
(* request sent, the stream having been read once by then.                 *)
C21_ExtensionCheckedWhenNamed ==
    \A c \in Calls :
        LET image == args[c].image
        IN  /\ Nameless(image) => ~InvalidTypeError(c)
            /\ (Done(c) /\ NormalizationReached(c) /\ image.t = "bytes") =>
                  requests[c] /= <<>>
            /\ (Done(c) /\ StreamTypeChecked(c)) =>
                  IF image.name.suffix = <<>> \/ ExtensionSupported(image.name.suffix)
                  THEN ~InvalidTypeError(c)
                  ELSE /\ RaisedWith(c, "ImgBBValidationError",
                             "Invalid image type" \o
                             ". Supported formats: JPEG, PNG, GIF, BMP, WEBP. Got: "
                                 \o Join(Lower(image.name.suffix)))
                       /\ requests[c] = <<>>
                       /\ stream[c].reads = 1
            /\ (image.t = "stream" /\ image.has_name /\ image.name.suffix /= <<>>
                  /\ ~ExtensionSupported(image.name.suffix)) => requests[c] = <<>>

C21_Witness ==
    \E c \in Calls :
        /\ StreamTypeChecked(c)
        /\ args[c].image.name.text = "notes.txt"
        /\ args[c].image.read = "bytes"
        /\ InvalidTypeError(c)
        /\ stream[c].reads = 1
        /\ requests[c] = <<>>

-----------------------------------------------------------------------------
(* the response of call c has status 200 and a body that is a JSON object  *)
(* whose success member is the boolean true                                *)
SuccessTrue(c) ==
    /\ ~response[c].raised
    /\ response[c].status_code = 200
    /\ HasMember(response[c], "success")
    /\ response[c].json.v.f.success = JBool(TRUE)

(* C22: a call returns normally only if it has sent exactly one request,   *)
(* the response status was 200 and the body is a JSON object whose success *)
(* flag is the boolean true; every other finished call has raised.         *)
C22_ReturnsOnlyOnSuccess ==
    \A c \in Calls :
        /\ outcome[c].kind = "return" => (Len(requests[c]) = 1 /\ SuccessTrue(c))
        /\ (Done(c) /\ ~(Len(requests[c]) = 1 /\ SuccessTrue(c))) =>
              outcome[c].kind = "raise"

====
